---- MODULE Spec2Model ----
(***************************************************************************)
(* Model of the zephyr_ble sample pipeline:                                *)
(*   src/src/mem_cache.c    the mutex-protected ring buffer of samples     *)
(*   src/src/sensor_mock.c  the producer (sample_timer_handler) and the    *)
(*                          half-precision decoder (uint16_to_double)      *)
(*   src/src/main.c         the consumer (tx_timer_handler), the GATT      *)
(*                          read of the sample count, the BLE callbacks    *)
(*                                                                         *)
(* Three execution contexts call the buffer: "prod" runs                   *)
(* sample_timer_handler, "cons" runs tx_timer_handler, "rd" runs           *)
(* read_sample_count.  Every statement of mem_cache.c that touches the     *)
(* shared structure is one step, so that the contexts interleave between   *)
(* any two statements; memcpy is one step per channel group (the imu       *)
(* block, then the temp block, in address order) and count++ / count-- is  *)
(* a load followed by a store.  k_mutex_lock(.., K_FOREVER) is modelled by *)
(* its contract: the step is enabled only while no context owns the mutex. *)
(*                                                                         *)
(* A sample is the record [imu, temp]: imu stands for the block of         *)
(* IMU_SAMPLE_LEN raw 32-bit words, temp for the block of TEMP_SAMPLE_LEN  *)
(* doubles.  A double is the record [kind, neg, sig, exp]; a finite one    *)
(* has the value (-1)^neg * sig * 2^exp with sig odd, or sig = exp = 0.    *)
(***************************************************************************)
EXTENDS Integers, Sequences, FiniteSets

\* ------------------------------------------------------------------ bounds

\* CONFIG_CACHE_SIZE is a build-time option: every value in 1..MaxCacheSize.
MaxCacheSize == 2
\* Once this many pushes were rejected no further sample is generated and
\* bt_gatt_notify no longer fails (the count of rejections is kept bounded).
MaxRejected == 2

\* ------------------------------------------------------ program constants

\* The CCC value that enables notifications (compared with in ccc_cfg_changed).
BT_GATT_CCC_NOTIFY == 1

\* ------------------------------------------------------------------- state

VARIABLES
  CONFIG_CACHE_SIZE, \* the configured capacity, fixed for a run
  data,              \* cache.data: slot index -> sample
  write_idx,         \* cache.write_idx
  read_idx,          \* cache.read_idx
  count,             \* cache.count
  lock,              \* cache.lock: the owning context, or "free"
  current_conn,      \* app_data.current_conn: 0 is NULL
  notify_enabled,    \* app_data.notify_enabled
  pc,                \* context -> the statement it is at
  sample,            \* context -> its local sensor_sample_t
  tmp,               \* context -> the count it loaded (count++, count--, c)
  ev,                \* what the last step made observable: the call that
                     \* returned and its value, the line logged, the sample
                     \* handed to bt_gatt_notify
  \* history variables: they record, and never influence the program
  fifo,              \* the accepted and not yet popped samples, oldest first
  pre,               \* <<snapshot>> taken when the mutex was acquired, or <<>>
  seen,              \* the values count had during the current count query
  rejected,          \* number of pushes that returned false
  script,            \* the scripted inputs of a scenario run (<<>>: none)
  ip,                \* next script position; 0 in a free run
  results            \* scripted runs: the samples the pops returned, in order

cacheVars == <<data, write_idx, read_idx, count>>
appVars == <<current_conn, notify_enabled>>
vars == <<CONFIG_CACHE_SIZE, data, write_idx, read_idx, count, lock,
          current_conn, notify_enabled, pc, sample, tmp, ev,
          fifo, pre, seen, rejected, script, ip, results>>

Procs == {"prod", "cons", "rd"}

\* ------------------------------------------------------------ half floats

\* The canonical form of sig * 2^exp: sig odd, or zero with exponent 0.
RECURSIVE Norm(_, _)
Norm(sig, exp) ==
  IF sig = 0 THEN <<0, 0>>
  ELSE IF sig % 2 = 0 THEN Norm(sig \div 2, exp + 1)
  ELSE <<sig, exp>>

Finite(neg, sig, exp) ==
  LET n == Norm(sig, exp)
  IN  [kind |-> "finite", neg |-> neg, sig |-> n[1], exp |-> n[2]]

\* ldexp(x, n) for a finite x: x * 2^n (zero stays zero).
ldexp(x, n) == Finite(x.neg, x.sig, x.exp + n)

\* sign ? -value : value
ApplySign(sign, value) == IF sign # 0 THEN [value EXCEPT !.neg = ~@] ELSE value

NAN == [kind |-> "nan", neg |-> FALSE, sig |-> 0, exp |-> 0]
INFINITY == [kind |-> "inf", neg |-> FALSE, sig |-> 0, exp |-> 0]

\* Mutant of uint16_to_double: no subnormal case, an exponent field of 0 is
\* decoded like any other.
uint16_to_double_NoSubnormal(u16) ==
  LET sign == (u16 \div 32768) % 2
      exp  == (u16 \div 1024) % 32
      mant == u16 % 1024
  IN  IF exp = 31
        THEN IF mant # 0 THEN NAN ELSE ApplySign(sign, INFINITY)
      ELSE ApplySign(sign, ldexp(Finite(FALSE, 1024 + mant, -10), exp - 15))

\* lines 42-61 (UINT16_TO_DOUBLE_SCALABLE is 0)
uint16_to_double(u16) ==
  LET sign == (u16 \div 32768) % 2
      exp  == (u16 \div 1024) % 32
      mant == u16 % 1024
  IN  IF exp = 0
        THEN ApplySign(sign, ldexp(Finite(FALSE, mant, 0), -24))
      ELSE IF exp = 31
        THEN IF mant # 0 THEN NAN ELSE ApplySign(sign, INFINITY)
      \* 1.0 + mant / 1024.0 is (1024 + mant) * 2^-10, exactly
      ELSE ApplySign(sign, ldexp(Finite(FALSE, 1024 + mant, -10), exp - 15))

\* ----------------------------------------------------------------- values

\* What rand() yields in a free run: the imu words, and the 16-bit raw of the
\* temperatures (0x3C00 is 1.0, 0xC000 is -2.0).
RandValues == {<<1, 15360>>, <<2, 49152>>}

\* A local sensor_sample_t that has not been written: indeterminate.
Indeterminate ==
  [imu |-> -1,
   temp |-> [kind |-> "indeterminate", neg |-> FALSE, sig |-> 0, exp |-> 0]]

\* The static cache is zero-initialised: every slot is all-zero bytes.
ZeroSample == [imu |-> 0, temp |-> Finite(FALSE, 0, 0)]

\* The values a connection handle, an HCI error, a CCC write and the result
\* of bt_gatt_notify take.
Conns == {1}
HciErrs == {0, 62}
CccValues == {0, 1, 2}
NotifyErrs == {0, -12}

\* An input of the environment: a timer expiry, a GATT request, a link event,
\* the result of bt_gatt_notify.
Event(h, a, b) == [h |-> h, a |-> a, b |-> b]

SampleInputs == {Event("sample", r[1], r[2]) : r \in RandValues}
NotifyInputs == {Event("notify", err, 0) : err \in NotifyErrs}
CccInputs == {Event("ccc", value, 0) : value \in CccValues}
ConnectedInputs == {Event("connected", conn, err) : conn \in Conns, err \in HciErrs}

AllIdle == \A p \in Procs : pc[p] = "idle"

\* The inputs that may arrive now: any of `free` in a free run; in a scripted
\* run the next input of the script, if it is for handler h.
Inputs(h, free) ==
  IF ip = 0 THEN free
  ELSE IF ip <= Len(script) /\ script[ip].h = h THEN {script[ip]}
  ELSE {}

\* The input is consumed; in a scripted run a handler starts only when the
\* previous one has returned.
Consume(start) ==
  IF ip = 0 THEN ip' = ip
  ELSE (start => AllIdle) /\ ip' = ip + 1

\* What a step makes observable.
NoEvent ==
  [fn |-> "", p |-> "", ok |-> FALSE, n |-> 0, log |-> "", s |-> Indeterminate,
   before |-> <<>>, seen |-> {}]

CacheState ==
  [data |-> data, write_idx |-> write_idx, read_idx |-> read_idx, count |-> count]

Snapshot(p) == [cache |-> CacheState, out |-> sample[p], fifo |-> fifo]

\* ------------------------------------------------- the callers' next steps

\* Mutant of PushLog: the producer does not report the rejected push.
PushLog_Silent(p, ok) == ""

\* sample_timer_handler, lines 93-95: a rejected push is logged;
\* tx_timer_handler, line 146: the result of the push is discarded.
PushLog(p, ok) ==
  IF p = "prod" /\ ~ok THEN "Sample cache full, dropping sample" ELSE ""

\* Mutant of AfterPop: the handler returns after the pop, the sample is not
\* handed to bt_gatt_notify.
AfterPop_NoNotify(ok) == "idle"

\* tx_timer_handler, lines 138-143: nothing popped: return; else notify.
AfterPop(ok) == IF ok THEN "tx_notify" ELSE "idle"

\* -------------------------------------------------------------- mem_cache

\* Mutant of LockAvailable: the lock call returns at once.
LockAvailable_Always == TRUE

\* k_mutex_lock(&cache.lock, K_FOREVER) returns once no context owns the mutex.
LockAvailable == lock = "free"

\* Mutant of IsFull: the capacity test is off by one.
IsFull_OffByOne == count > CONFIG_CACHE_SIZE

\* cache.count == CONFIG_CACHE_SIZE
IsFull == count = CONFIG_CACHE_SIZE

\* cache.count == 0
IsEmpty == count = 0

\* Mutant of NextIdx: the cursor is not advanced.
NextIdx_Stuck(idx) == idx % CONFIG_CACHE_SIZE

\* (idx + 1) % CONFIG_CACHE_SIZE
NextIdx(idx) == (idx + 1) % CONFIG_CACHE_SIZE

\* Mutant of CountValue: the query returns the write cursor.
CountValue_WriteIdx == write_idx

\* What line 72 loads into c.
CountValue == count

\* The count query in progress sees every value count takes.
Observe(c) == IF pc["rd"] = "idle" THEN seen ELSE seen \cup {c}

\* mem_cache_push, line 26
mem_cache_push_lock(p) ==
  /\ pc[p] = "push_lock"
  /\ LockAvailable
  /\ lock' = p
  /\ pre' = <<Snapshot(p)>>
  /\ pc' = [pc EXCEPT ![p] = "push_check"]
  /\ ev' = NoEvent
  /\ UNCHANGED <<CONFIG_CACHE_SIZE, data, write_idx, read_idx, count,
                 current_conn, notify_enabled, sample, tmp, fifo, seen,
                 rejected, script, ip, results>>

\* Mutant of mem_cache_push_check: the sample is copied before the test.
mem_cache_push_check_CopyFirst(p) ==
  /\ pc[p] = "push_check"
  /\ data' = [data EXCEPT ![write_idx] = sample[p]]
  /\ pc' = [pc EXCEPT ![p] = IF IsFull THEN "push_full" ELSE "push_copy_imu"]
  /\ ev' = NoEvent
  /\ UNCHANGED <<CONFIG_CACHE_SIZE, write_idx, read_idx, count, lock,
                 current_conn, notify_enabled, sample, tmp, fifo, pre, seen,
                 rejected, script, ip, results>>

\* line 28
mem_cache_push_check(p) ==
  /\ pc[p] = "push_check"
  /\ pc' = [pc EXCEPT ![p] = IF IsFull THEN "push_full" ELSE "push_copy_imu"]
  /\ ev' = NoEvent
  /\ UNCHANGED <<CONFIG_CACHE_SIZE, data, write_idx, read_idx, count, lock,
                 current_conn, notify_enabled, sample, tmp, fifo, pre, seen,
                 rejected, script, ip, results>>

\* Mutant of mem_cache_push_full: the early return leaves the mutex locked.
mem_cache_push_full_NoUnlock(p) ==
  /\ pc[p] = "push_full"
  /\ lock' = lock
  /\ pre' = <<>>
  /\ rejected' = rejected + 1
  /\ ev' = [NoEvent EXCEPT !.fn = "push", !.p = p, !.ok = FALSE,
                        !.s = sample[p], !.before = pre,
                        !.log = PushLog(p, FALSE)]
  /\ sample' = [sample EXCEPT ![p] = Indeterminate]
  /\ pc' = [pc EXCEPT ![p] = "idle"]
  /\ UNCHANGED <<CONFIG_CACHE_SIZE, data, write_idx, read_idx, count,
                 current_conn, notify_enabled, tmp, fifo, seen, script, ip,
                 results>>

\* lines 29-30: unlock, return false (and the caller returns)
mem_cache_push_full(p) ==
  /\ pc[p] = "push_full"
  /\ lock' = "free"
  /\ pre' = <<>>
  /\ rejected' = rejected + 1
  /\ ev' = [NoEvent EXCEPT !.fn = "push", !.p = p, !.ok = FALSE,
                        !.s = sample[p], !.before = pre,
                        !.log = PushLog(p, FALSE)]
  /\ sample' = [sample EXCEPT ![p] = Indeterminate]
  /\ pc' = [pc EXCEPT ![p] = "idle"]
  /\ UNCHANGED <<CONFIG_CACHE_SIZE, data, write_idx, read_idx, count,
                 current_conn, notify_enabled, tmp, fifo, seen, script, ip,
                 results>>

\* line 33, the imu block of the memcpy
mem_cache_push_copy_imu(p) ==
  /\ pc[p] = "push_copy_imu"
  /\ data' = [data EXCEPT ![write_idx].imu = sample[p].imu]
  /\ pc' = [pc EXCEPT ![p] = "push_copy_temp"]
  /\ ev' = NoEvent
  /\ UNCHANGED <<CONFIG_CACHE_SIZE, write_idx, read_idx, count, lock,
                 current_conn, notify_enabled, sample, tmp, fifo, pre, seen,
                 rejected, script, ip, results>>

\* line 33, the temp block of the memcpy
mem_cache_push_copy_temp(p) ==
  /\ pc[p] = "push_copy_temp"
  /\ data' = [data EXCEPT ![write_idx].temp = sample[p].temp]
  /\ pc' = [pc EXCEPT ![p] = "push_widx"]
  /\ ev' = NoEvent
  /\ UNCHANGED <<CONFIG_CACHE_SIZE, write_idx, read_idx, count, lock,
                 current_conn, notify_enabled, sample, tmp, fifo, pre, seen,
                 rejected, script, ip, results>>

\* Mutant of mem_cache_push_widx: the write cursor is advanced without the
\* modulo.
mem_cache_push_widx_NoWrap(p) ==
  /\ pc[p] = "push_widx"
  /\ write_idx' = write_idx + 1
  /\ pc' = [pc EXCEPT ![p] = "push_count_load"]
  /\ ev' = NoEvent
  /\ UNCHANGED <<CONFIG_CACHE_SIZE, data, read_idx, count, lock,
                 current_conn, notify_enabled, sample, tmp, fifo, pre, seen,
                 rejected, script, ip, results>>

\* line 34
mem_cache_push_widx(p) ==
  /\ pc[p] = "push_widx"
  /\ write_idx' = NextIdx(write_idx)
  /\ pc' = [pc EXCEPT ![p] = "push_count_load"]
  /\ ev' = NoEvent
  /\ UNCHANGED <<CONFIG_CACHE_SIZE, data, read_idx, count, lock,
                 current_conn, notify_enabled, sample, tmp, fifo, pre, seen,
                 rejected, script, ip, results>>

\* line 35, the load of cache.count++
mem_cache_push_count_load(p) ==
  /\ pc[p] = "push_count_load"
  /\ tmp' = [tmp EXCEPT ![p] = count]
  /\ pc' = [pc EXCEPT ![p] = "push_count_store"]
  /\ ev' = NoEvent
  /\ UNCHANGED <<CONFIG_CACHE_SIZE, data, write_idx, read_idx, count, lock,
                 current_conn, notify_enabled, sample, fifo, pre, seen,
                 rejected, script, ip, results>>

\* Mutant of mem_cache_push_count_store: count is not incremented.
mem_cache_push_count_store_NoIncrement(p) ==
  /\ pc[p] = "push_count_store"
  /\ count' = tmp[p]
  /\ seen' = Observe(count')
  /\ tmp' = [tmp EXCEPT ![p] = 0]
  /\ pc' = [pc EXCEPT ![p] = "push_unlock"]
  /\ ev' = NoEvent
  /\ UNCHANGED <<CONFIG_CACHE_SIZE, data, write_idx, read_idx, lock,
                 current_conn, notify_enabled, sample, fifo, pre, rejected,
                 script, ip, results>>

\* line 35, the store of cache.count++
mem_cache_push_count_store(p) ==
  /\ pc[p] = "push_count_store"
  /\ count' = tmp[p] + 1
  /\ seen' = Observe(count')
  /\ tmp' = [tmp EXCEPT ![p] = 0]
  /\ pc' = [pc EXCEPT ![p] = "push_unlock"]
  /\ ev' = NoEvent
  /\ UNCHANGED <<CONFIG_CACHE_SIZE, data, write_idx, read_idx, lock,
                 current_conn, notify_enabled, sample, fifo, pre, rejected,
                 script, ip, results>>

\* lines 37-38: unlock, return true (and the caller returns)
mem_cache_push_unlock(p) ==
  /\ pc[p] = "push_unlock"
  /\ lock' = "free"
  /\ pre' = <<>>
  /\ fifo' = Append(fifo, sample[p])
  /\ ev' = [NoEvent EXCEPT !.fn = "push", !.p = p, !.ok = TRUE,
                        !.s = sample[p], !.before = pre,
                        !.log = PushLog(p, TRUE)]
  /\ sample' = [sample EXCEPT ![p] = Indeterminate]
  /\ pc' = [pc EXCEPT ![p] = "idle"]
  /\ UNCHANGED <<CONFIG_CACHE_SIZE, data, write_idx, read_idx, count,
                 current_conn, notify_enabled, tmp, seen, rejected, script,
                 ip, results>>

\* mem_cache_pop, line 49
mem_cache_pop_lock(p) ==
  /\ pc[p] = "pop_lock"
  /\ LockAvailable
  /\ lock' = p
  /\ pre' = <<Snapshot(p)>>
  /\ pc' = [pc EXCEPT ![p] = "pop_check"]
  /\ ev' = NoEvent
  /\ UNCHANGED <<CONFIG_CACHE_SIZE, data, write_idx, read_idx, count,
                 current_conn, notify_enabled, sample, tmp, fifo, seen,
                 rejected, script, ip, results>>

\* Mutant of mem_cache_pop_check: the slot is copied out before the test.
mem_cache_pop_check_CopyFirst(p) ==
  /\ pc[p] = "pop_check"
  /\ sample' = [sample EXCEPT ![p] = data[read_idx]]
  /\ pc' = [pc EXCEPT ![p] = IF IsEmpty THEN "pop_empty" ELSE "pop_copy_imu"]
  /\ ev' = NoEvent
  /\ UNCHANGED <<CONFIG_CACHE_SIZE, data, write_idx, read_idx, count, lock,
                 current_conn, notify_enabled, tmp, fifo, pre, seen,
                 rejected, script, ip, results>>

\* line 51
mem_cache_pop_check(p) ==
  /\ pc[p] = "pop_check"
  /\ pc' = [pc EXCEPT ![p] = IF IsEmpty THEN "pop_empty" ELSE "pop_copy_imu"]
  /\ ev' = NoEvent
  /\ UNCHANGED <<CONFIG_CACHE_SIZE, data, write_idx, read_idx, count, lock,
                 current_conn, notify_enabled, sample, tmp, fifo, pre, seen,
                 rejected, script, ip, results>>

\* lines 52-53: unlock, return false
mem_cache_pop_empty(p) ==
  /\ pc[p] = "pop_empty"
  /\ lock' = "free"
  /\ pre' = <<>>
  /\ ev' = [NoEvent EXCEPT !.fn = "pop", !.p = p, !.ok = FALSE,
                        !.s = sample[p], !.before = pre]
  /\ pc' = [pc EXCEPT ![p] = AfterPop(FALSE)]
  /\ UNCHANGED <<CONFIG_CACHE_SIZE, data, write_idx, read_idx, count,
                 current_conn, notify_enabled, sample, tmp, fifo, seen,
                 rejected, script, ip, results>>

\* line 56, the imu block of the memcpy
mem_cache_pop_copy_imu(p) ==
  /\ pc[p] = "pop_copy_imu"
  /\ sample' = [sample EXCEPT ![p].imu = data[read_idx].imu]
  /\ pc' = [pc EXCEPT ![p] = "pop_copy_temp"]
  /\ ev' = NoEvent
  /\ UNCHANGED <<CONFIG_CACHE_SIZE, data, write_idx, read_idx, count, lock,
                 current_conn, notify_enabled, tmp, fifo, pre, seen,
                 rejected, script, ip, results>>

\* Mutant of mem_cache_pop_copy_temp: the memcpy is too short, the temp block
\* is not copied.
mem_cache_pop_copy_temp_Skipped(p) ==
  /\ pc[p] = "pop_copy_temp"
  /\ sample' = sample
  /\ pc' = [pc EXCEPT ![p] = "pop_ridx"]
  /\ ev' = NoEvent
  /\ UNCHANGED <<CONFIG_CACHE_SIZE, data, write_idx, read_idx, count, lock,
                 current_conn, notify_enabled, tmp, fifo, pre, seen,
                 rejected, script, ip, results>>

\* line 56, the temp block of the memcpy
mem_cache_pop_copy_temp(p) ==
  /\ pc[p] = "pop_copy_temp"
  /\ sample' = [sample EXCEPT ![p].temp = data[read_idx].temp]
  /\ pc' = [pc EXCEPT ![p] = "pop_ridx"]
  /\ ev' = NoEvent
  /\ UNCHANGED <<CONFIG_CACHE_SIZE, data, write_idx, read_idx, count, lock,
                 current_conn, notify_enabled, tmp, fifo, pre, seen,
                 rejected, script, ip, results>>

\* Mutant of mem_cache_pop_ridx: the read cursor is not advanced.
mem_cache_pop_ridx_Stuck(p) ==
  /\ pc[p] = "pop_ridx"
  /\ read_idx' = read_idx
  /\ pc' = [pc EXCEPT ![p] = "pop_count_load"]
  /\ ev' = NoEvent
  /\ UNCHANGED <<CONFIG_CACHE_SIZE, data, write_idx, count, lock,
                 current_conn, notify_enabled, sample, tmp, fifo, pre, seen,
                 rejected, script, ip, results>>

\* line 57
mem_cache_pop_ridx(p) ==
  /\ pc[p] = "pop_ridx"
  /\ read_idx' = NextIdx(read_idx)
  /\ pc' = [pc EXCEPT ![p] = "pop_count_load"]
  /\ ev' = NoEvent
  /\ UNCHANGED <<CONFIG_CACHE_SIZE, data, write_idx, count, lock,
                 current_conn, notify_enabled, sample, tmp, fifo, pre, seen,
                 rejected, script, ip, results>>

\* line 58, the load of cache.count--
mem_cache_pop_count_load(p) ==
  /\ pc[p] = "pop_count_load"
  /\ tmp' = [tmp EXCEPT ![p] = count]
  /\ pc' = [pc EXCEPT ![p] = "pop_count_store"]
  /\ ev' = NoEvent
  /\ UNCHANGED <<CONFIG_CACHE_SIZE, data, write_idx, read_idx, count, lock,
                 current_conn, notify_enabled, sample, fifo, pre, seen,
                 rejected, script, ip, results>>

\* Mutant of mem_cache_pop_count_store: count is not decremented.
mem_cache_pop_count_store_NoDecrement(p) ==
  /\ pc[p] = "pop_count_store"
  /\ count' = tmp[p]
  /\ seen' = Observe(count')
  /\ tmp' = [tmp EXCEPT ![p] = 0]
  /\ pc' = [pc EXCEPT ![p] = "pop_unlock"]
  /\ ev' = NoEvent
  /\ UNCHANGED <<CONFIG_CACHE_SIZE, data, write_idx, read_idx, lock,
                 current_conn, notify_enabled, sample, fifo, pre, rejected,
                 script, ip, results>>

\* line 58, the store of cache.count--
mem_cache_pop_count_store(p) ==
  /\ pc[p] = "pop_count_store"
  /\ count' = tmp[p] - 1
  /\ seen' = Observe(count')
  /\ tmp' = [tmp EXCEPT ![p] = 0]
  /\ pc' = [pc EXCEPT ![p] = "pop_unlock"]
  /\ ev' = NoEvent
  /\ UNCHANGED <<CONFIG_CACHE_SIZE, data, write_idx, read_idx, lock,
                 current_conn, notify_enabled, sample, fifo, pre, rejected,
                 script, ip, results>>

\* lines 60-61: unlock, return true
mem_cache_pop_unlock(p) ==
  /\ pc[p] = "pop_unlock"
  /\ lock' = "free"
  /\ pre' = <<>>
  /\ fifo' = IF fifo = <<>> THEN fifo ELSE Tail(fifo)
  /\ results' = IF ip = 0 THEN results ELSE Append(results, sample[p])
  /\ ev' = [NoEvent EXCEPT !.fn = "pop", !.p = p, !.ok = TRUE,
                        !.s = sample[p], !.before = pre]
  /\ pc' = [pc EXCEPT ![p] = AfterPop(TRUE)]
  /\ UNCHANGED <<CONFIG_CACHE_SIZE, data, write_idx, read_idx, count,
                 current_conn, notify_enabled, sample, tmp, seen, rejected,
                 script, ip>>

\* Mutant of mem_cache_count_lock: the query does not take the mutex.
mem_cache_count_lock_Skipped(p) ==
  /\ pc[p] = "count_lock"
  /\ lock' = lock
  /\ pre' = <<Snapshot(p)>>
  /\ pc' = [pc EXCEPT ![p] = "count_read"]
  /\ ev' = NoEvent
  /\ UNCHANGED <<CONFIG_CACHE_SIZE, data, write_idx, read_idx, count,
                 current_conn, notify_enabled, sample, tmp, fifo, seen,
                 rejected, script, ip, results>>

\* mem_cache_count, line 71
mem_cache_count_lock(p) ==
  /\ pc[p] = "count_lock"
  /\ LockAvailable
  /\ lock' = p
  /\ pre' = <<Snapshot(p)>>
  /\ pc' = [pc EXCEPT ![p] = "count_read"]
  /\ ev' = NoEvent
  /\ UNCHANGED <<CONFIG_CACHE_SIZE, data, write_idx, read_idx, count,
                 current_conn, notify_enabled, sample, tmp, fifo, seen,
                 rejected, script, ip, results>>

\* line 72
mem_cache_count_read(p) ==
  /\ pc[p] = "count_read"
  /\ tmp' = [tmp EXCEPT ![p] = CountValue]
  /\ pc' = [pc EXCEPT ![p] = "count_unlock"]
  /\ ev' = NoEvent
  /\ UNCHANGED <<CONFIG_CACHE_SIZE, data, write_idx, read_idx, count, lock,
                 current_conn, notify_enabled, sample, fifo, pre, seen,
                 rejected, script, ip, results>>

\* lines 73-74: unlock, return c (read_sample_count hands it to
\* bt_gatt_attr_read and returns)
mem_cache_count_unlock(p) ==
  /\ pc[p] = "count_unlock"
  /\ lock' = "free"
  /\ pre' = <<>>
  /\ ev' = [NoEvent EXCEPT !.fn = "count", !.p = p, !.n = tmp[p],
                        !.before = pre, !.seen = seen]
  /\ seen' = {}
  /\ tmp' = [tmp EXCEPT ![p] = 0]
  /\ pc' = [pc EXCEPT ![p] = "idle"]
  /\ UNCHANGED <<CONFIG_CACHE_SIZE, data, write_idx, read_idx, count,
                 current_conn, notify_enabled, sample, fifo, rejected,
                 script, ip, results>>

\* ------------------------------------------------------------ sensor_mock

\* sample_timer_handler, lines 79-93: fill the sample from rand() (every imu
\* word is rand(), every temp is uint16_to_double of a 16-bit rand()), call push
sample_timer_handler(imu, raw) ==
  /\ pc["prod"] = "idle"
  /\ ip = 0 => rejected < MaxRejected
  /\ Consume(TRUE)
  /\ sample' = [sample EXCEPT !["prod"] =
                  [imu |-> imu, temp |-> uint16_to_double(raw)]]
  /\ pc' = [pc EXCEPT !["prod"] = "push_lock"]
  /\ ev' = NoEvent
  /\ UNCHANGED <<CONFIG_CACHE_SIZE, data, write_idx, read_idx, count, lock,
                 current_conn, notify_enabled, tmp, fifo, pre, seen,
                 rejected, script, results>>

\* ------------------------------------------------------------------- main

\* Mutant of tx_timer_handler: the gate returns only when both conditions
\* fail (&& written for ||).
tx_timer_handler_GateAnd ==
  /\ pc["cons"] = "idle"
  /\ Consume(TRUE)
  /\ pc' = [pc EXCEPT !["cons"] =
              IF current_conn = 0 /\ ~notify_enabled THEN "idle" ELSE "pop_lock"]
  /\ ev' = [NoEvent EXCEPT !.fn = "tx", !.p = "cons",
                        !.before = <<Snapshot("cons")>>]
  /\ UNCHANGED <<CONFIG_CACHE_SIZE, data, write_idx, read_idx, count, lock,
                 current_conn, notify_enabled, sample, tmp, fifo, pre, seen,
                 rejected, script, results>>

\* tx_timer_handler, lines 133-138: the gate, then the call of pop; the
\* activation itself is observable (the timer expired and the handler ran)
tx_timer_handler ==
  /\ pc["cons"] = "idle"
  /\ Consume(TRUE)
  /\ pc' = [pc EXCEPT !["cons"] =
              IF current_conn = 0 \/ ~notify_enabled THEN "idle" ELSE "pop_lock"]
  /\ ev' = [NoEvent EXCEPT !.fn = "tx", !.p = "cons",
                        !.before = <<Snapshot("cons")>>]
  /\ UNCHANGED <<CONFIG_CACHE_SIZE, data, write_idx, read_idx, count, lock,
                 current_conn, notify_enabled, sample, tmp, fifo, pre, seen,
                 rejected, script, results>>

\* Mutant of tx_timer_handler_notify: the test of err is inverted, the sample
\* is pushed back after a successful delivery.
tx_timer_handler_notify_Inverted(err) ==
  /\ pc["cons"] = "tx_notify"
  /\ (ip = 0 /\ err # 0) => rejected < MaxRejected
  /\ Consume(FALSE)
  /\ ev' = [NoEvent EXCEPT !.fn = "notify", !.p = "cons", !.ok = (err = 0),
                        !.s = sample["cons"]]
  /\ sample' = IF err = 0 THEN sample
               ELSE [sample EXCEPT !["cons"] = Indeterminate]
  /\ pc' = [pc EXCEPT !["cons"] = IF err = 0 THEN "push_lock" ELSE "idle"]
  /\ UNCHANGED <<CONFIG_CACHE_SIZE, data, write_idx, read_idx, count, lock,
                 current_conn, notify_enabled, tmp, fifo, pre, seen,
                 rejected, script, results>>

\* Mutant of tx_timer_handler_notify: a failed delivery is not pushed back.
tx_timer_handler_notify_NoRequeue(err) ==
  /\ pc["cons"] = "tx_notify"
  /\ (ip = 0 /\ err # 0) => rejected < MaxRejected
  /\ Consume(FALSE)
  /\ ev' = [NoEvent EXCEPT !.fn = "notify", !.p = "cons", !.ok = (err = 0),
                        !.s = sample["cons"],
                        !.log = IF err # 0 THEN "Notify failed, re-pushing sample to cache"
                                ELSE ""]
  /\ sample' = [sample EXCEPT !["cons"] = Indeterminate]
  /\ pc' = [pc EXCEPT !["cons"] = "idle"]
  /\ UNCHANGED <<CONFIG_CACHE_SIZE, data, write_idx, read_idx, count, lock,
                 current_conn, notify_enabled, tmp, fifo, pre, seen,
                 rejected, script, results>>

\* lines 143-146: bt_gatt_notify returns err; on an error the warning is logged
\* and the sample is pushed back, else the handler returns
tx_timer_handler_notify(err) ==
  /\ pc["cons"] = "tx_notify"
  /\ (ip = 0 /\ err # 0) => rejected < MaxRejected
  /\ Consume(FALSE)
  /\ ev' = [NoEvent EXCEPT !.fn = "notify", !.p = "cons", !.ok = (err = 0),
                        !.s = sample["cons"],
                        !.log = IF err # 0 THEN "Notify failed, re-pushing sample to cache"
                                ELSE ""]
  /\ sample' = IF err # 0 THEN sample
               ELSE [sample EXCEPT !["cons"] = Indeterminate]
  /\ pc' = [pc EXCEPT !["cons"] = IF err # 0 THEN "push_lock" ELSE "idle"]
  /\ UNCHANGED <<CONFIG_CACHE_SIZE, data, write_idx, read_idx, count, lock,
                 current_conn, notify_enabled, tmp, fifo, pre, seen,
                 rejected, script, results>>

\* read_sample_count, line 85: the call of mem_cache_count
read_sample_count ==
  /\ pc["rd"] = "idle"
  /\ Consume(TRUE)
  /\ seen' = {count}
  /\ pc' = [pc EXCEPT !["rd"] = "count_lock"]
  /\ ev' = NoEvent
  /\ UNCHANGED <<CONFIG_CACHE_SIZE, data, write_idx, read_idx, count, lock,
                 current_conn, notify_enabled, sample, tmp, fifo, pre,
                 rejected, script, results>>

\* ccc_cfg_changed, line 97
ccc_cfg_changed(value) ==
  /\ Consume(TRUE)
  /\ notify_enabled' = (value = BT_GATT_CCC_NOTIFY)
  /\ ev' = NoEvent
  /\ UNCHANGED <<CONFIG_CACHE_SIZE, data, write_idx, read_idx, count, lock,
                 current_conn, pc, sample, tmp, fifo, pre, seen, rejected,
                 script, results>>

\* connected, lines 182-191
connected(conn, err) ==
  /\ Consume(TRUE)
  /\ current_conn' = IF err # 0 THEN current_conn ELSE conn
  /\ ev' = NoEvent
  /\ UNCHANGED <<CONFIG_CACHE_SIZE, data, write_idx, read_idx, count, lock,
                 notify_enabled, pc, sample, tmp, fifo, pre, seen, rejected,
                 script, results>>

\* disconnected, lines 202-205
disconnected ==
  /\ Consume(TRUE)
  /\ current_conn' = 0
  /\ ev' = NoEvent
  /\ UNCHANGED <<CONFIG_CACHE_SIZE, data, write_idx, read_idx, count, lock,
                 notify_enabled, pc, sample, tmp, fifo, pre, seen, rejected,
                 script, results>>

\* ------------------------------------------------------------------ system

\* mem_cache_init (and the zeroed statics), for a capacity and a script.
mem_cache_init(size, scr) ==
  /\ CONFIG_CACHE_SIZE = size
  /\ data = [i \in 0..(size - 1) |-> ZeroSample]
  /\ write_idx = 0
  /\ read_idx = 0
  /\ count = 0
  /\ lock = "free"
  /\ current_conn = 0
  /\ notify_enabled = FALSE
  /\ pc = [p \in Procs |-> "idle"]
  /\ sample = [p \in Procs |-> Indeterminate]
  /\ tmp = [p \in Procs |-> 0]
  /\ ev = NoEvent
  /\ fifo = <<>>
  /\ pre = <<>>
  /\ seen = {}
  /\ rejected = 0
  /\ script = scr
  /\ ip = IF scr = <<>> THEN 0 ELSE 1
  /\ results = <<>>

Init == \E size \in 1..MaxCacheSize : mem_cache_init(size, <<>>)

\* The statements of mem_cache_push in context p.
PushOf(p) ==
  \/ mem_cache_push_lock(p)
  \/ mem_cache_push_check(p)
  \/ mem_cache_push_full(p)
  \/ mem_cache_push_copy_imu(p)
  \/ mem_cache_push_copy_temp(p)
  \/ mem_cache_push_widx(p)
  \/ mem_cache_push_count_load(p)
  \/ mem_cache_push_count_store(p)
  \/ mem_cache_push_unlock(p)

Push == \E p \in {"prod", "cons"} : PushOf(p)

Pop ==
  \/ mem_cache_pop_lock("cons")
  \/ mem_cache_pop_check("cons")
  \/ mem_cache_pop_empty("cons")
  \/ mem_cache_pop_copy_imu("cons")
  \/ mem_cache_pop_copy_temp("cons")
  \/ mem_cache_pop_ridx("cons")
  \/ mem_cache_pop_count_load("cons")
  \/ mem_cache_pop_count_store("cons")
  \/ mem_cache_pop_unlock("cons")

Count ==
  \/ mem_cache_count_lock("rd")
  \/ mem_cache_count_read("rd")
  \/ mem_cache_count_unlock("rd")

SampleTimer ==
  \E e \in Inputs("sample", SampleInputs) : sample_timer_handler(e.a, e.b)

TxTimer == \E e \in Inputs("tx", {Event("tx", 0, 0)}) : tx_timer_handler

Notify == \E e \in Inputs("notify", NotifyInputs) : tx_timer_handler_notify(e.a)

GattRead == \E e \in Inputs("read", {Event("read", 0, 0)}) : read_sample_count

CccWrite == \E e \in Inputs("ccc", CccInputs) : ccc_cfg_changed(e.a)

LinkUp == \E e \in Inputs("connected", ConnectedInputs) : connected(e.a, e.b)

LinkDown == \E e \in Inputs("disconnected", {Event("disconnected", 0, 0)}) : disconnected

Next ==
  \/ SampleTimer
  \/ TxTimer
  \/ Notify
  \/ GattRead
  \/ CccWrite
  \/ LinkUp
  \/ LinkDown
  \/ Push
  \/ Pop
  \/ Count

Spec == Init /\ [][Next]_vars

\* Scheduling.  A context that is inside a call keeps running: each of its
\* statements is eventually executed, and a context waiting in
\* k_mutex_lock(.., K_FOREVER) is queued on the mutex and gets it after
\* finitely many unlocks (strong fairness: the lock step is enabled only
\* while the mutex is free).  tx_timer is periodic, so the consumer is
\* activated again and again, and bt_gatt_notify returns.
Fairness ==
  /\ SF_vars(PushOf("prod"))
  /\ SF_vars(PushOf("cons"))
  /\ SF_vars(Pop)
  /\ SF_vars(Count)
  /\ WF_vars(TxTimer)
  /\ WF_vars(Notify)

SpecFair == Init /\ [][Next]_vars /\ Fairness

\* The same system built with a single slot (CONFIG_CACHE_SIZE=1): every
\* return path of push, pop and count is taken and the three contexts
\* contend for the mutex as with any other capacity.
InitOneSlot == mem_cache_init(1, <<>>)

SpecFairOneSlot == InitOneSlot /\ [][Next]_vars /\ Fairness

\* ------------------------------------------------- the requeue scenario

\* The sample a "sample" input makes the producer generate.
SampleOf(e) == [imu |-> e.a, temp |-> uint16_to_double(e.b)]

\* What rand() yields in the scenario (0x0000 is 0.0).
ScenarioValues == {<<1, 15360>>, <<2, 49152>>, <<3, 0>>}

\* Connect and subscribe; generate A, generate B; a consumer activation whose
\* delivery fails; generate C; three consumer activations that deliver.
RequeueScript(A, B, C) ==
  << Event("connected", 1, 0), Event("ccc", BT_GATT_CCC_NOTIFY, 0),
     Event("sample", A[1], A[2]), Event("sample", B[1], B[2]),
     Event("tx", 0, 0), Event("notify", -12, 0),
     Event("sample", C[1], C[2]),
     Event("tx", 0, 0), Event("notify", 0, 0),
     Event("tx", 0, 0), Event("notify", 0, 0),
     Event("tx", 0, 0), Event("notify", 0, 0) >>

InitRequeue ==
  \E size \in 1..(MaxCacheSize + 1), A \in ScenarioValues, B \in ScenarioValues,
     C \in ScenarioValues :
    mem_cache_init(size, RequeueScript(A, B, C))

NextRequeue ==
  \/ SampleTimer
  \/ TxTimer
  \/ Notify
  \/ CccWrite
  \/ LinkUp
  \/ Push
  \/ Pop

SpecRequeue == InitRequeue /\ [][NextRequeue]_vars

\* ---------------------------------------------- the end-to-end scenario

\* Connect and subscribe; a consumer activation on the empty buffer; generate
\* four samples, then a fifth; a consumer activation that delivers; generate
\* a sixth sample; a GATT read of the sample count.
EndToEndScript(A, B) ==
  << Event("connected", 1, 0), Event("ccc", BT_GATT_CCC_NOTIFY, 0),
     Event("tx", 0, 0),
     Event("sample", A[1], A[2]), Event("sample", B[1], B[2]),
     Event("sample", A[1], A[2]), Event("sample", B[1], B[2]),
     Event("sample", A[1], A[2]),
     Event("tx", 0, 0), Event("notify", 0, 0),
     Event("sample", B[1], B[2]),
     Event("read", 0, 0) >>

InitEndToEnd ==
  \E size \in 1..(MaxCacheSize + 2), A \in ScenarioValues, B \in ScenarioValues :
    mem_cache_init(size, EndToEndScript(A, B))

NextEndToEnd ==
  \/ SampleTimer
  \/ TxTimer
  \/ Notify
  \/ GattRead
  \/ CccWrite
  \/ LinkUp
  \/ Push
  \/ Pop
  \/ Count

SpecEndToEnd == InitEndToEnd /\ [][NextEndToEnd]_vars

\* ------------------------------------------------- the decoder's inputs

\* Two producer activations whose rand() yields a 15-bit pattern and then
\* the same pattern with the sign bit set.
DecodeScript(r) ==
  << Event("sample", 1, r), Event("sample", 2, r + 32768) >>

\* Every 16-bit input is decoded in one of the runs; the buffer has one slot,
\* so the first sample is accepted and the second is dropped.
InitDecode == \E r \in 0..32767 : mem_cache_init(1, DecodeScript(r))

NextDecode ==
  \/ SampleTimer
  \/ Push

SpecDecode == InitDecode /\ [][NextDecode]_vars

\* ----------------------------------------------------------------- claims

\* The statements between k_mutex_lock and k_mutex_unlock.
CriticalLabels ==
  {"push_check", "push_full", "push_copy_imu", "push_copy_temp", "push_widx",
   "push_count_load", "push_count_store", "push_unlock",
   "pop_check", "pop_empty", "pop_copy_imu", "pop_copy_temp", "pop_ridx",
   "pop_count_load", "pop_count_store", "pop_unlock",
   "count_read", "count_unlock"}

InCritical(p) == pc[p] \in CriticalLabels

\* No call of mem_cache_push, mem_cache_pop or mem_cache_count is in progress.
NoCallInProgress == \A p \in Procs : pc[p] \in {"idle", "tx_notify"}

\* The call that returned in the last step found this when it took the mutex.
Before == ev.before[1]

\* C1: in every reachable state, under every interleaving of the three
\* contexts, 0 <= count <= CONFIG_CACHE_SIZE.
C1_CountWithinCapacity == count >= 0 /\ count <= CONFIG_CACHE_SIZE

\* C1 witness: a push has just been rejected with the buffer at a capacity
\* of at least two, count standing at its upper limit.
C1_Witness ==
  /\ ev.fn = "push" /\ ~ev.ok
  /\ count = CONFIG_CACHE_SIZE
  /\ CONFIG_CACHE_SIZE >= 2

\* C2: a push that finds count == CONFIG_CACHE_SIZE returns false, and when
\* it returns count, both cursors and every slot are as it found them.
C2_FullPushRejectedUnchanged ==
  (ev.fn = "push" /\ Before.cache.count = CONFIG_CACHE_SIZE)
    => (~ev.ok /\ CacheState = Before.cache)

\* C2 witness: a push found the buffer full and has returned.
C2_Witness ==
  /\ ev.fn = "push"
  /\ Before.cache.count = CONFIG_CACHE_SIZE
  /\ ~ev.ok
  /\ \E i \in DOMAIN data : data[i] # ev.s

\* C3: a pop that finds count == 0 returns false, and when it returns count,
\* both cursors, every slot and the caller's output sample are as it found
\* them.
C3_EmptyPopRejectedUnchanged ==
  (ev.fn = "pop" /\ Before.cache.count = 0)
    => (~ev.ok /\ CacheState = Before.cache /\ sample[ev.p] = Before.out)

\* C3 witness: a pop found the buffer empty, after samples had passed
\* through it, and has returned.
C3_Witness ==
  /\ ev.fn = "pop"
  /\ Before.cache.count = 0
  /\ ~ev.ok
  /\ \E i \in DOMAIN data : data[i] # ZeroSample

\* C4: every successful pop returns the oldest sample that was accepted and
\* not yet popped, so the popped samples are, in order, a prefix of the
\* accepted ones; whatever the capacity and the position of the cursors.
C4_PopReturnsOldest ==
  (ev.fn = "pop" /\ ev.ok) => (Before.fifo # <<>> /\ ev.s = Head(Before.fifo))

\* C4 witness: a pop returned the sample of the last slot, the read cursor
\* wrapped to 0, and a different sample, written after the write cursor
\* wrapped, is still queued behind it.
C4_Witness ==
  /\ ev.fn = "pop" /\ ev.ok
  /\ CONFIG_CACHE_SIZE >= 2
  /\ Before.cache.read_idx = CONFIG_CACHE_SIZE - 1
  /\ read_idx = 0
  /\ fifo # <<>>
  /\ fifo[1] # ev.s

\* C5 as stated: with no call in progress, count is the number of pushes made
\* (accepted or rejected) minus the number of successful pops.
C5_CountIsAllPushesMinusPops ==
  NoCallInProgress => count = Len(fifo) + rejected

\* C5 amended: with no call in progress, count is the number of accepted
\* pushes minus the number of successful pops (the length of fifo).
C5_CountIsAcceptedMinusPops ==
  NoCallInProgress => count = Len(fifo)

\* C5 witness: no call is in progress, a push was rejected, samples are queued.
C5_Witness ==
  /\ NoCallInProgress
  /\ rejected > 0
  /\ count = Len(fifo)
  /\ count > 0

\* The three samples of the scenario's script, and its progress.
ScenarioA == SampleOf(script[3])
ScenarioB == SampleOf(script[4])
ScenarioC == SampleOf(script[7])
ScenarioDone == ip >= 13 /\ AllIdle

\* C6 as stated: for every capacity >= 2, once the scenario's fourth consumer
\* activation has returned, the three pops after the requeue returned B, A, C.
C6_RequeueOrderFromCapacity2 ==
  (ScenarioDone /\ CONFIG_CACHE_SIZE >= 2)
    => results = <<ScenarioA, ScenarioB, ScenarioA, ScenarioC>>

\* C6 amended: the same for every capacity >= 3 (B, the requeued A and C are
\* in the buffer together).
C6_RequeueOrderFromCapacity3 ==
  (ScenarioDone /\ CONFIG_CACHE_SIZE >= 3)
    => results = <<ScenarioA, ScenarioB, ScenarioA, ScenarioC>>

\* C6 witness: the scenario ran to its end with three different samples and
\* a capacity of 3.
C6_Witness ==
  /\ ScenarioDone
  /\ CONFIG_CACHE_SIZE = 3
  /\ ScenarioA # ScenarioB /\ ScenarioB # ScenarioC /\ ScenarioA # ScenarioC
  /\ results = <<ScenarioA, ScenarioB, ScenarioA, ScenarioC>>

\* C7: a context between k_mutex_lock and k_mutex_unlock, on any path, owns
\* the mutex; so at most one context is there at a time.
C7_MutualExclusion ==
  /\ \A p \in Procs : InCritical(p) => lock = p
  /\ Cardinality({p \in Procs : InCritical(p)}) <= 1

\* C7 witness: the producer is on the early-return path of push while the
\* consumer and the reader wait for the mutex.
C7_Witness ==
  /\ pc["prod"] = "push_full"
  /\ pc["cons"] = "pop_lock"
  /\ pc["rd"] = "count_lock"

\* C8: every sample a successful pop returns equals, in both channel groups,
\* a sample that an accepted push put in the buffer and that is still there.
C8_NoTornPop ==
  (ev.fn = "pop" /\ ev.ok)
    => \E i \in DOMAIN Before.fifo : Before.fifo[i] = ev.s

\* C8 witness: a pop returned a sample while two different samples were
\* queued and the producer was waiting to push another.
C8_Witness ==
  /\ ev.fn = "pop" /\ ev.ok
  /\ Len(Before.fifo) >= 2
  /\ Before.fifo[1] # Before.fifo[2]
  /\ pc["prod"] = "push_lock"

\* C9: whenever no context is between lock and unlock, count is the number
\* of pushes that returned true minus the number of pops that returned true.
C9_NoLostUpdate == lock = "free" => count = Len(fifo)

\* C9 witness: the mutex is free after a pop, with the producer and the
\* reader both about to take it.
C9_Witness ==
  /\ lock = "free"
  /\ ev.fn = "pop" /\ ev.ok
  /\ pc["prod"] = "push_lock"
  /\ pc["rd"] = "count_lock"
  /\ count = Len(fifo)
  /\ count > 0

\* C10: the value a count query returns is a value count had between the
\* query's invocation and its return.
C10_CountLinearizable == ev.fn = "count" => ev.n \in ev.seen

\* C10 witness: a query returned after count changed twice while it ran.
C10_Witness ==
  /\ ev.fn = "count"
  /\ Cardinality(ev.seen) >= 3
  /\ ev.n \in ev.seen

\* C11: a consumer activation that runs while there is no connection or
\* while notifications are not enabled returns without calling pop: the
\* consumer is idle again, its local sample, count, both cursors, every slot
\* and the queue of accepted samples are as the activation found them.
C11_GatedActivationIsNoOp ==
  (ev.fn = "tx" /\ (current_conn = 0 \/ ~notify_enabled))
    => /\ pc["cons"] = "idle"
       /\ CacheState = Before.cache
       /\ fifo = Before.fifo
       /\ sample["cons"] = Before.out

\* C11 witness: an activation ran with a connection but with notifications
\* not enabled, samples being queued, and returned at the gate.
C11_Witness ==
  /\ ev.fn = "tx"
  /\ current_conn # 0 /\ ~notify_enabled
  /\ count > 0 /\ fifo # <<>>
  /\ pc["cons"] = "idle"

\* C12: whenever the consumer's requeue push is rejected because the buffer
\* is full (the producer refilled it after the pop), the loss of the sample
\* is made observable: the step in which the rejected push returns to
\* tx_timer_handler produces a drop event (here: a log line).
C12_RequeueDropObservable ==
  (ev.fn = "push" /\ ev.p = "cons" /\ ~ev.ok) => ev.log # ""

\* C13: when the push of a producer activation is rejected, the handler
\* logs the drop and returns (one push attempt, no retry); count, cursors,
\* slots and the queue of accepted samples are as the push found them, so
\* the sample is kept nowhere; and the producer can be activated again.
C13_ProducerDropReported ==
  (ev.fn = "push" /\ ev.p = "prod" /\ ~ev.ok)
    => /\ ev.log = "Sample cache full, dropping sample"
       /\ pc["prod"] = "idle"
       /\ sample["prod"] = Indeterminate
       /\ Before.cache.count = CONFIG_CACHE_SIZE
       /\ CacheState = Before.cache
       /\ fifo = Before.fifo
       /\ rejected < MaxRejected => ENABLED SampleTimer

\* C13 witness: a producer push was rejected with a buffer of two slots
\* holding two different samples, and the sample timer can fire again.
C13_Witness ==
  /\ ev.fn = "push" /\ ev.p = "prod" /\ ~ev.ok
  /\ ev.log # ""
  /\ CONFIG_CACHE_SIZE >= 2
  /\ fifo[1] # fifo[2]
  /\ rejected < MaxRejected
  /\ ENABLED SampleTimer

\* The end-to-end script ran to its end.
EndToEndDone == ip = Len(script) + 1 /\ AllIdle

\* C14: with a capacity of 4 and the buffer empty, the pushes of the first
\* four samples return true (count 1, 2, 3, 4), the push of the fifth
\* returns false and count stays 4, the pop returns true and count becomes
\* 3, the next push returns true and count becomes 4, and mem_cache_count
\* then returns 4.  (The call that returns while ip = k + 1 is the one made
\* for script[k].)
C14_EndToEndCapacity4 ==
  CONFIG_CACHE_SIZE = 4 =>
    /\ (ev.fn = "push" /\ ip \in 5..8) => (ev.ok /\ count = ip - 4)
    /\ (ev.fn = "push" /\ ip = 9) => (~ev.ok /\ count = 4)
    /\ (ev.fn = "pop" /\ ip = 10) => (ev.ok /\ count = 3)
    /\ (ev.fn = "push" /\ ip = 12) => (ev.ok /\ count = 4)
    /\ ev.fn = "count" => (ip = 13 /\ ev.n = 4)
    /\ EndToEndDone => (count = 4 /\ rejected = 1 /\ Len(results) = 1)

\* C14 witness: with a capacity of 4 the scenario ran to its end: one push
\* was rejected, one pop succeeded and the count query has just returned 4.
C14_Witness ==
  /\ CONFIG_CACHE_SIZE = 4
  /\ EndToEndDone
  /\ ev.fn = "count" /\ ev.n = 4
  /\ rejected = 1
  /\ Len(results) = 1
  /\ Len(fifo) = 4

\* The half-precision value of a 16-bit pattern, from the format's
\* definition: 1 sign bit, 5 exponent bits with bias 15, 10 mantissa bits.
\* n * 2^k is written with n odd: t is the number of trailing zero bits of n.
Pow2Table == <<2, 4, 8, 16, 32, 64, 128, 256, 512, 1024, 2048>>

Pow2(t) == IF t = 0 THEN 1 ELSE Pow2Table[t]

HalfMagnitude(n, k) ==
  IF n = 0 THEN [sig |-> 0, exp |-> 0]
  ELSE LET t == CHOOSE t \in 0..10 :
                  n % Pow2(t) = 0 /\ (n \div Pow2(t)) % 2 = 1
       IN  [sig |-> n \div Pow2(t), exp |-> k + t]

HalfValue(u16) ==
  LET negative == u16 >= 32768
      field == u16 % 32768
      e == field \div 1024
      m == field % 1024
      mag == IF e = 0 THEN HalfMagnitude(m, -24)
             ELSE HalfMagnitude(1024 + m, e - 25)
  IN  IF e = 31
        THEN [kind |-> IF m = 0 THEN "inf" ELSE "nan", neg |-> negative,
              sig |-> 0, exp |-> 0]
      ELSE [kind |-> "finite", neg |-> negative, sig |-> mag.sig, exp |-> mag.exp]

\* The inputs the claim names, with the value each must give:
\* 0x0000 +0, 0x8000 -0, 0x3C00 1, 0x0001 2^-24, 0x7BFF 65504 (2047 * 2^5),
\* 0x7C00 +infinity, 0xFC00 -infinity; 0x7E00 gives NaN.
HalfExamples ==
  { <<0, "finite", FALSE, 0, 0>>, <<32768, "finite", TRUE, 0, 0>>,
    <<15360, "finite", FALSE, 1, 0>>, <<1, "finite", FALSE, 1, -24>>,
    <<31743, "finite", FALSE, 2047, 5>>,
    <<31744, "inf", FALSE, 0, 0>>, <<64512, "inf", TRUE, 0, 0>> }

\* The raw value of the producer activation in progress, and what
\* uint16_to_double made of it.
DecodedRaw == script[ip - 1].b
Decoded == sample["prod"].temp

\* C15: for every 16-bit input uint16_to_double returns the half-precision
\* value of the pattern: signed mantissa * 2^-24 for an exponent field of 0,
\* NaN for an exponent field of 31 with a non-zero mantissa, signed infinity
\* for an exponent field of 31 with a zero mantissa, signed
\* (1 + mantissa/1024) * 2^(exponent - 15) otherwise; the named inputs give
\* the named values; no input gives anything but a number, an infinity or NaN.
C15_HalfPrecisionDecode ==
  pc["prod"] # "idle" =>
    /\ Decoded.kind \in {"finite", "inf", "nan"}
    /\ IF HalfValue(DecodedRaw).kind = "nan"
         THEN Decoded.kind = "nan"
         ELSE Decoded = HalfValue(DecodedRaw)
    /\ \A x \in HalfExamples :
         DecodedRaw = x[1] =>
           Decoded = [kind |-> x[2], neg |-> x[3], sig |-> x[4], exp |-> x[5]]
    /\ DecodedRaw = 32256 => Decoded.kind = "nan"

\* C15 witness: the producer decoded 0x8001, the smallest subnormal with the
\* sign bit set, to -(2^-24).
C15_Witness ==
  /\ pc["prod"] = "push_full"
  /\ DecodedRaw = 32769
  /\ Decoded = [kind |-> "finite", neg |-> TRUE, sig |-> 1, exp |-> -24]

\* The samples a cache state holds, oldest first: the count slots from the
\* read cursor on, wrapping.
SlotsOf(c) ==
  [i \in 1..c.count |-> c.data[(c.read_idx + i - 1) % CONFIG_CACHE_SIZE]]

\* C16: after a failed delivery the consumer calls push with the sample it
\* popped and handed to bt_gatt_notify; after a successful delivery it
\* returns without a push; when its push returns, accepted or not, the
\* handler returns (one push); an accepted requeue leaves the buffer holding
\* what it held when the push began, followed by the requeued sample.
C16_RequeueOnceAtTail ==
  /\ (ev.fn = "notify" /\ ~ev.ok)
       => (pc["cons"] = "push_lock" /\ sample["cons"] = ev.s)
  /\ (ev.fn = "notify" /\ ev.ok) => pc["cons"] = "idle"
  /\ (ev.fn = "push" /\ ev.p = "cons") => pc["cons"] = "idle"
  /\ (ev.fn = "push" /\ ev.p = "cons" /\ ev.ok)
       => SlotsOf(CacheState) = Append(SlotsOf(Before.cache), ev.s)

\* C16 witness: a requeue was accepted behind a different sample that the
\* producer had pushed, in a buffer whose write cursor wrapped.
C16_Witness ==
  /\ ev.fn = "push" /\ ev.p = "cons" /\ ev.ok
  /\ Before.cache.count >= 1
  /\ SlotsOf(CacheState)[1] # ev.s
  /\ SlotsOf(CacheState)[count] = ev.s
  /\ write_idx = 0

\* C17: whenever the mutex is free, both cursors are in 0..C-1 and
\* write_idx = (read_idx + count) mod C; the count slots from the read
\* cursor on hold exactly the accepted, not yet popped samples, oldest
\* first; and the cursors coincide exactly when count is 0 or C.
C17_CursorsAndCount ==
  lock = "free" =>
    /\ read_idx \in 0..(CONFIG_CACHE_SIZE - 1)
    /\ write_idx \in 0..(CONFIG_CACHE_SIZE - 1)
    /\ write_idx = (read_idx + count) % CONFIG_CACHE_SIZE
    /\ SlotsOf(CacheState) = fifo
    /\ (read_idx = write_idx) <=> (count = 0 \/ count = CONFIG_CACHE_SIZE)

\* C17 witness: the mutex is free, the occupied run starts at the last slot
\* and wraps around the end of the array, and holds two different samples.
C17_Witness ==
  /\ lock = "free"
  /\ read_idx = CONFIG_CACHE_SIZE - 1
  /\ count >= 2
  /\ fifo[1] # fifo[2]
  /\ SlotsOf(CacheState) = fifo

\* Context p is inside a call of mem_cache_push, mem_cache_pop or
\* mem_cache_count (waiting for the mutex included).
InCall(p) == pc[p] \notin {"idle", "tx_notify"}

\* C18: under fair scheduling every call of push, pop and count returns,
\* the mutex is free again after every return (accepted, full, empty, count),
\* and a mutex that is held is released: no caller waits for it forever.
C18_CallsReturnAndUnlock ==
  /\ \A p \in Procs : InCall(p) ~> ~InCall(p)
  /\ (lock # "free") ~> (lock = "free")
  /\ [](ev.fn \in {"push", "pop", "count"} => lock = "free")

\* C18 witness: the consumer is on the empty path of pop and owns the mutex
\* while the producer and the reader wait in k_mutex_lock.
C18_Witness ==
  /\ pc["cons"] = "pop_empty"
  /\ lock = "cons"
  /\ pc["prod"] = "push_lock"
  /\ pc["rd"] = "count_lock"

\* The samples the producer can generate in a free run.
SampleValues == {SampleOf(e) : e \in SampleInputs}

\* The consumer holds a popped sample in its local copy: from the return of
\* pop until bt_gatt_notify accepted it or the requeue push returned.
ConsumerHolds ==
  pc["cons"] \in
    {"tx_notify", "push_lock", "push_check", "push_full", "push_copy_imu",
     "push_copy_temp", "push_widx", "push_count_load", "push_count_store",
     "push_unlock"}

\* How many accepted samples equal to v are in the system: queued in the
\* buffer, or in the consumer's local copy.
InSystem(v) ==
  Cardinality({i \in DOMAIN fifo : fifo[i] = v})
    + (IF ConsumerHolds /\ sample["cons"] = v THEN 1 ELSE 0)

\* C19: every step moves a sample between places or leaves it where it is:
\* a push accepted from the producer adds one sample to the system, a
\* delivery that succeeds and a requeue that is rejected each take one out
\* (so a sample is delivered at most once), and no other step, a pop and
\* an accepted requeue included, changes how many copies of any sample
\* are in the system; and whenever the mutex is free the queued samples
\* are, one to one and in order, the count slots from the read cursor on.
C19_SampleConservation ==
  /\ [][\A v \in SampleValues :
         InSystem(v)' = InSystem(v) +
           (IF ev'.s # v THEN 0
            ELSE IF ev'.fn = "push" /\ ev'.p = "prod" /\ ev'.ok THEN 1
            ELSE IF ev'.fn = "notify" /\ ev'.ok THEN -1
            ELSE IF ev'.fn = "push" /\ ev'.p = "cons" /\ ~ev'.ok THEN -1
            ELSE 0)]_vars
  /\ [](lock = "free" => (count = Len(fifo) /\ SlotsOf(CacheState) = fifo))

\* C19 witness: a requeue has just been rejected (the sample is dropped)
\* while the buffer holds two different samples.
C19_Witness ==
  /\ ev.fn = "push" /\ ev.p = "cons" /\ ~ev.ok
  /\ lock = "free"
  /\ count = 2
  /\ fifo[1] # fifo[2]
  /\ InSystem(ev.s) = 1

\* A peer is connected, notifications are enabled and no delivery fails.
DeliveryPossible ==
  current_conn # 0 /\ notify_enabled /\ (ev.fn = "notify" => ev.ok)

Queued(v) == \E i \in DOMAIN fifo : fifo[i] = v

Delivered(v) == ev.fn = "notify" /\ ev.ok /\ ev.s = v

\* C20: from a point on from which a peer stays connected, notifications
\* stay enabled and every delivery succeeds, the consumer being activated
\* again and again, a sample held in the buffer (at any position) is
\* eventually popped and handed to bt_gatt_notify, which accepts it; the
\* producer keeps pushing meanwhile.
C20_EventualDelivery ==
  \A v \in SampleValues : (Queued(v) /\ []DeliveryPossible) ~> Delivered(v)

\* C20 witness: a delivery succeeded while the buffer held two samples, the
\* newer one different from the older, and the producer was pushing.
C20_Witness ==
  /\ ev.fn = "notify" /\ ev.ok
  /\ Len(fifo) >= 2
  /\ fifo[1] # fifo[2]
  /\ pc["prod"] # "idle"
  /\ current_conn # 0 /\ notify_enabled
====
